---- MODULE Spec2Model ----
(***************************************************************************)
(* InferenceJDM: the relation inferer (src/src/inference.py), the JDM      *)
(* access port it calls (src/src/jdm_api.py) and the renderer it hands its *)
(* result to (src/src/logger.py).                                          *)
(*                                                                         *)
(* Floats are modelled as exact fractions <<numerator, denominator>> with  *)
(* a positive denominator, in lowest terms.                                *)
(***************************************************************************)
EXTENDS Integers, Sequences, FiniteSets, TLC

VARIABLES
    session,          \* JdmApi._session: "none" | "open" | "closed"
    relation_types,   \* JdmApi.relation_types: [loaded, types]
    inferer,          \* RelationInferer: [limit, default_params]
    pc,               \* where RelationInferer.run stands
    args,             \* run's arguments [sujet_name, relation_name, objet_name]
    status,           \* upstream status of the two term lookups, 0 = not received
    rel_id,           \* run's local rel_id, 0 = not resolved
    err,              \* the exception run raised to its caller
    strat,            \* the four strategy tasks of run_all_inferences
    issued,           \* requests sent to the service in this run, per kind
    rendered,         \* the lists handed to logger.render_inferences in this run
    logger            \* InferenceLoggerBot: [messages, sent, pc]

vars == <<session, relation_types, inferer, pc, args, status, rel_id, err,
          strat, issued, rendered, logger>>

----------------------------------------------------------------------------
(* Bounds of the model *)

\* first-hop edges one fetch returns, at most
MaxEdges == 2
\* the heaviest edge weight of the scoring and ranking specifications
MaxWeight == 5
\* candidates in the aggregate list of the scoring specification, at most
MaxScoreLen == 2
\* candidates in the aggregate list of the ranking specification, at most
MaxRankLen == 3

----------------------------------------------------------------------------
(* Fractions *)

RECURSIVE Gcd(_, _)
Gcd(a, b) == IF b = 0 THEN a ELSE Gcd(b, a % b)

Abs(x) == IF x < 0 THEN -x ELSE x

Min(a, b) == IF a <= b THEN a ELSE b

Max(a, b) == IF a >= b THEN a ELSE b

\* the fraction n/d, d > 0, in lowest terms
Frac(n, d) == LET g == Gcd(Abs(n), d) IN <<n \div g, d \div g>>

Zero == <<0, 1>>

One == <<1, 1>>

RMul(x, y) == Frac(x[1] * y[1], x[2] * y[2])

RAdd(x, y) == Frac(x[1] * y[2] + y[1] * x[2], x[2] * y[2])

\* 1/x for x > 0
RInv(x) == <<x[2], x[1]>>

RLess(x, y) == x[1] * y[2] < y[1] * x[2]

RLeq(x, y) == x[1] * y[2] <= y[1] * x[2]

\* the outcome of a division by zero: Python raises ZeroDivisionError
ZeroDivision == <<0, 0>>

\* Python's a / b on numbers
TrueDiv(a, b) == IF b = 0 THEN ZeroDivision ELSE Frac(a, b)

----------------------------------------------------------------------------
(* Scoring: RelationInferer.normalize_and_score *)

\* the minimum taken for the maximum
MinOf(ws) == CHOOSE m \in {ws[i] : i \in DOMAIN ws} : \A i \in DOMAIN ws : m <= ws[i]

\* Python's max() of a non-empty list of numbers
MaxOf(ws) == CHOOSE m \in {ws[i] : i \in DOMAIN ws} : \A i \in DOMAIN ws : ws[i] <= m

\* the guard is dropped: the division is made whatever the maximum
NormUnguarded(w, max_w) == TrueDiv(w, max_w)

\* inf.weight / max_w if max_w else 0
Norm(w, max_w) == IF max_w # 0 THEN TrueDiv(w, max_w) ELSE Zero

RECURSIVE SumOfReciprocals(_)
SumOfReciprocals(xs) ==
    IF Len(xs) = 0 THEN Zero ELSE RAdd(RInv(Head(xs)), SumOfReciprocals(Tail(xs)))

\* statistics.harmonic_mean of strictly positive numbers: n / sum(1/x)
harmonic_mean(xs) ==
    LET total == SumOfReciprocals(xs) IN Frac(Len(xs) * total[2], total[1])

\* the annotation multipliers are left out of the score
ScoreNoAnnotation(inf, max_w1, max_w2) ==
    LET norm_w1 == Norm(inf.weight1, max_w1)
        norm_w2 == Norm(inf.weight2, max_w2)
    IN  IF RLess(Zero, norm_w1) /\ RLess(Zero, norm_w2)
        THEN harmonic_mean(<<norm_w1, norm_w2>>) ELSE Zero

\* the body of the loop over the candidates: the score one candidate gets
ScoreOf(inf, max_w1, max_w2) ==
    LET norm_w1 == Norm(inf.weight1, max_w1)
        norm_w2 == Norm(inf.weight2, max_w2)
        base == IF RLess(Zero, norm_w1) /\ RLess(Zero, norm_w2)
                THEN harmonic_mean(<<norm_w1, norm_w2>>) ELSE Zero
        annotation_weight == RMul(inf.annotation_weight1, inf.annotation_weight2)
    IN  RMul(base, annotation_weight)

\* whether the loop body divides by zero for this candidate
ScoreRaises(inf, max_w1, max_w2) ==
    \/ Norm(inf.weight1, max_w1) = ZeroDivision
    \/ Norm(inf.weight2, max_w2) = ZeroDivision

\* normalize_and_score(inferences): the exception it ends with ("" for none)
\* and the candidates as it leaves them. max() of an empty list raises
\* ValueError before any candidate is touched.
normalize_and_score(inferences) ==
    IF Len(inferences) = 0
    THEN [raised |-> "ValueError", inferences |-> inferences]
    ELSE LET max_w1 == MaxOf([i \in DOMAIN inferences |-> inferences[i].weight1])
             max_w2 == MaxOf([i \in DOMAIN inferences |-> inferences[i].weight2])
             bad == {i \in DOMAIN inferences : ScoreRaises(inferences[i], max_w1, max_w2)}
             \* the loop stops at the first candidate that raises
             stop == IF bad = {} THEN Len(inferences) + 1
                     ELSE CHOOSE i \in bad : \A j \in bad : i <= j
         IN  [raised |-> IF bad = {} THEN "" ELSE "ZeroDivisionError",
              inferences |->
                  [i \in DOMAIN inferences |->
                      IF i < stop
                      THEN [inferences[i] EXCEPT
                               !.score = ScoreOf(inferences[i], max_w1, max_w2)]
                      ELSE inferences[i]]]

----------------------------------------------------------------------------
(* Ranking: sorted(inferences, key=score, reverse=True)[:limit] *)

\* the number of leading elements of s, sorted by descending score, whose
\* score is at least x
RECURSIVE LeadingAtLeast(_, _)
LeadingAtLeast(s, x) ==
    IF Len(s) = 0 \/ RLess(Head(s).score, x) THEN 0
    ELSE 1 + LeadingAtLeast(Tail(s), x)

\* the number of leading elements of s whose score is greater than x
RECURSIVE LeadingGreater(_, _)
LeadingGreater(s, x) ==
    IF Len(s) = 0 \/ RLeq(Head(s).score, x) THEN 0
    ELSE 1 + LeadingGreater(Tail(s), x)

InsertAt(s, k, x) == SubSeq(s, 1, k) \o <<x>> \o SubSeq(s, k + 1, Len(s))

\* the sort without reverse=True: ascending
RECURSIVE SortAscending(_)
SortAscending(s) ==
    IF Len(s) = 0 THEN <<>>
    ELSE LET front == SortAscending(SubSeq(s, 1, Len(s) - 1))
             x == s[Len(s)]
             k == Cardinality({i \in DOMAIN front : RLeq(front[i].score, x.score)})
         IN  InsertAt(front, k, x)

\* a descending sort that puts an element before its equals: not stable
RECURSIVE SortUnstable(_)
SortUnstable(s) ==
    IF Len(s) = 0 THEN <<>>
    ELSE LET front == SortUnstable(SubSeq(s, 1, Len(s) - 1))
             x == s[Len(s)]
         IN  InsertAt(front, LeadingGreater(front, x.score), x)

\* sorted(s, key=lambda r: r.score, reverse=True): descending, and stable
\* (elements with equal keys keep their order, with reverse=True too)
RECURSIVE sorted_by_score(_)
sorted_by_score(s) ==
    IF Len(s) = 0 THEN <<>>
    ELSE LET front == sorted_by_score(SubSeq(s, 1, Len(s) - 1))
             x == s[Len(s)]
         IN  InsertAt(front, LeadingAtLeast(front, x.score), x)

\* a slice that keeps one element too many
SliceInclusive(s, n) == SubSeq(s, 1, Min(Max(n + 1, 0), Len(s)))

\* Python's s[:n]: a negative n counts from the end
Slice(s, n) ==
    IF n >= 0 THEN SubSeq(s, 1, Min(n, Len(s)))
    ELSE SubSeq(s, 1, Max(Len(s) + n, 0))

----------------------------------------------------------------------------
(* The access port: JdmApi and the service behind it *)

\* one catalog entry: RelationType(id, name, gpname, ...)
RelationType(id, name, gpname) == [id |-> id, name |-> name, gpname |-> gpname]

\* a catalog as the service lists it; the dict keeps this order
FullCatalog ==
    << RelationType(5, "r_syn", "synonyme"),
       RelationType(6, "r_isa", "generique"),
       RelationType(8, "r_hypo", "specifique"),
       RelationType(9, "r_has_part", "partie") >>

\* the catalog without the entries named `name`
Without(catalog, name) == SelectSeq(catalog, LAMBDA rt : rt.name # name)

\* the catalogs the service may answer fetch_relations_types with
Catalogs == {FullCatalog} \cup {Without(FullCatalog, n) : n \in {"r_isa", "r_syn"}}

\* JdmApi.relation_types before __aenter__ has loaded it: None
NotLoaded == [loaded |-> FALSE, types |-> <<>>]

\* the statuses the service answers a term lookup with
TermStatuses == {200, 404, 500, 503}

\* the statuses the service answers a relation query or the catalog query with
QueryStatuses == {200, 500}

\* the exception values of the model
NoError == [type |-> "", term_name |-> "", status_code |-> 0]

Raised(type) == [type |-> type, term_name |-> "", status_code |-> 0]

TermNotFoundError(term_name, status_code) ==
    [type |-> "TermNotFoundError", term_name |-> term_name, status_code |-> status_code]

\* a lookup that answers None for every status but 200 instead of raising
fetch_term_swallow(term, st) == NoError

\* fetch_term_by_name(term) on a response of status st: the exception it
\* raises, NoError when it returns the Term
fetch_term_by_name(term, st) ==
    IF st = 200 THEN NoError ELSE TermNotFoundError(term, st)

\* _fetch on the session as it stands: self._session.get(...) on None raises
\* AttributeError, and a closed aiohttp session refuses the request
fetch_refused(sess) ==
    CASE sess = "none" -> Raised("AttributeError")
      [] sess = "closed" -> Raised("RuntimeError")
      [] OTHER -> NoError

\* the indexes of the catalog entries whose name or gpname is `name`
Matching(types, name) ==
    {i \in DOMAIN types : types[i].name = name \/ types[i].gpname = name}

\* get_relation_type_by_name(name).id as the inferer writes it: RuntimeError
\* when the catalog is not loaded; the first entry that matches; and None when
\* none does, whose .id raises AttributeError
type_id(rt, name) ==
    IF ~rt.loaded THEN [raised |-> Raised("RuntimeError"), id |-> 0]
    ELSE IF Matching(rt.types, name) = {}
    THEN [raised |-> Raised("AttributeError"), id |-> 0]
    ELSE [raised |-> NoError,
          id |-> rt.types[CHOOSE i \in Matching(rt.types, name) :
                             \A j \in Matching(rt.types, name) : i <= j].id]

\* the k-th edge of a first-hop answer: a Relation with its target node and
\* weight. The service lists edges by ascending weight here, so that the
\* inferer's sort has work to do.
Edge(k) == [node2 |-> k, w |-> k]

\* the first-hop answers of the service: up to MaxEdges edges
FirstHopAnswers == {[k \in 1..n |-> Edge(k)] : n \in 0..MaxEdges}

\* what the service holds between a bridge and the opposite endpoint for the
\* target relation type: here one edge for every bridge, of weight 1
SecondHopAnswer(bridge) == << [node2 |-> bridge, w |-> 1] >>

\* the attributes of a Relation object: the dataclass fields and __str__
RelationAttributes ==
    {"id", "node1", "node2", "type", "w", "sujet", "objet", "relation_type", "__str__"}

----------------------------------------------------------------------------
(* The inferer *)

\* the four strategies, in the order run_all_inferences lists them
Strategies == <<"generalization", "specialization", "transitivity", "synonymy">>

StrategyIds == DOMAIN Strategies

\* the tag each strategy gives its candidates
Tag(s) == <<"isa", "hypo", "transitivity", "syn">>[s]

\* the relation type each strategy takes its first hop over; transitivity
\* takes the target type and looks nothing up
FixedType(s) == <<"r_isa", "r_hypo", "", "r_syn">>[s]

\* RelationInferer(limit=10)
DefaultLimit == 10

\* EndpointParams(min_weight=1, limit=100)
default_params == [types_ids |-> <<>>, min_weight |-> 1, limit |-> 100]

\* the default CLI sentence: pizza r_has_part mozza
SujetName == "pizza"

ObjetName == "mozza"

\* the relation names a caller may pass: a name, a gpname, and one no catalog has
RelationNames == {"r_has_part", "partie", "r_unknown"}

NoArgs == [sujet_name |-> "", relation_name |-> "", objet_name |-> ""]

\* a task of asyncio.gather: pending, returned (with a value) or raised
Pending == [state |-> "pending", exc |-> "", value |-> <<>>]

TaskRaised(exc) == [state |-> "raised", exc |-> exc, value |-> <<>>]

TaskReturned(value) == [state |-> "returned", exc |-> "", value |-> value]

\* a Query Filter object: its identity and its fields. The engine's default
\* filter is the object DefaultId; an object made by a strategy is named by
\* the strategy and the place of the copy in it
DefaultId == <<0, 0>>

Instance(id, params) == [id |-> id, params |-> params]

\* a copy that hands the same object back
copy_alias(inst, site) == inst

\* EndpointParams.copy(): copy.deepcopy(self), a new object with equal fields
copy(inst, site) == Instance(site, inst.params)

\* params.types_ids = ids, on the object `inst`
with_types_ids(inst, ids) == [inst EXCEPT !.params.types_ids = ids]

\* self.default_params after a write to the object `inst`
written_default(dp, inst) == IF inst.id = DefaultId THEN inst.params ELSE dp

\* the strategies that copy the default filter a second time, for their
\* second hop; transitivity keeps the filter of its first hop
CopiesTwice(s) == FixedType(s) # ""

\* the requests a strategy has sent, per kind
NoneSent == [first_hop |-> 0, second_hop |-> 0, annotation |-> 0]

\* a strategy coroutine: its position, the status its first hop was answered
\* with (0 = no answer yet), the filter objects it made, its sorted first-hop
\* edges, its bridge tasks and the filter object each of them holds through
\* its closure, the requests it and its tasks sent and, once over, what it
\* returned or raised
NotStarted ==
    [pc |-> "idle", exc |-> "", hop1 |-> 0, params |-> <<>>, rels |-> <<>>,
     tasks |-> <<>>, held |-> <<>>, sent |-> NoneSent, value |-> <<>>]

NoRequests == [term |-> 0, first_hop |-> 0, second_hop |-> 0, annotation |-> 0]

\* sorted(relations, key=lambda r: r.w, reverse=True): descending and stable
RECURSIVE LeadingHeavier(_, _)
LeadingHeavier(s, w) ==
    IF Len(s) = 0 \/ Head(s).w < w THEN 0 ELSE 1 + LeadingHeavier(Tail(s), w)

RECURSIVE sorted_by_weight(_)
sorted_by_weight(s) ==
    IF Len(s) = 0 THEN <<>>
    ELSE LET front == sorted_by_weight(SubSeq(s, 1, Len(s) - 1))
             x == s[Len(s)]
         IN  InsertAt(front, LeadingHeavier(front, x.w), x)

\* Inference(...) as get_final_rel builds it; score keeps the dataclass
\* default, which the trailing comma of its declaration makes the tuple (0.0,)
DefaultScore == << Zero >>

Inference(s, gen, weight1, weight2, a1, a2) ==
    [sujet |-> SujetName, objet |-> ObjetName, gen |-> gen,
     weight1 |-> weight1, weight2 |-> weight2, t |-> Tag(s), rel |-> "r_has_part",
     score |-> DefaultScore, annotation_weight1 |-> a1, annotation_weight2 |-> a2]

\* a gather that lets the first exception through as soon as a task raises
gather_propagating(tasks) ==
    LET bad == {i \in DOMAIN tasks : tasks[i].state = "raised"}
    IN  IF bad # {}
        THEN [ready |-> TRUE, exc |-> tasks[CHOOSE i \in bad : TRUE].exc]
        ELSE [ready |-> \A i \in DOMAIN tasks : tasks[i].state # "pending", exc |-> ""]

\* asyncio.gather(*tasks, return_exceptions=True): over once every task is,
\* and never raising
gather(tasks) ==
    [ready |-> \A i \in DOMAIN tasks : tasks[i].state # "pending", exc |-> ""]

\* the orders in which the tasks handed to a gather may complete: the
\* one-to-one listings of their indexes
CompletionOrders(tasks) == Permutations(DOMAIN tasks)

\* a gather that lists its results in the order the tasks completed in
gather_as_completed(tasks, order) == [k \in DOMAIN order |-> tasks[order[k]]]

\* the list asyncio.gather returns for tasks that completed in `order`: one
\* result per awaitable, in the order the awaitables were passed
gather_results(tasks, order) == tasks

\* [r for r in results if r is not None and not isinstance(r, Exception)]
RECURSIVE Survivors(_)
Survivors(tasks) ==
    IF Len(tasks) = 0 THEN <<>>
    ELSE (IF Head(tasks).state = "returned" THEN Head(tasks).value ELSE <<>>)
         \o Survivors(Tail(tasks))

\* run_all_inferences' loop: the lists of the strategies that returned, in order
RECURSIVE Extend(_)
Extend(results) ==
    IF Len(results) = 0 THEN <<>>
    ELSE (IF Head(results).state = "returned" THEN Head(results).value ELSE <<>>)
         \o Extend(Tail(results))

\* the strategies as the outer gather sees them
AsTasks(st) ==
    [s \in StrategyIds |->
        CASE st[s].pc = "returned" -> TaskReturned(st[s].value)
          [] st[s].pc = "raised" -> TaskRaised(st[s].exc)
          [] OTHER -> Pending]

\* an end of run that scores whatever list it is given, the empty one too
finish_run_unguarded(inferences, limit) ==
    LET scored == normalize_and_score(inferences)
    IN  IF scored.raised # ""
        THEN [raised |-> scored.raised, rendered |-> <<>>]
        ELSE [raised |-> "",
              rendered |-> << Slice(sorted_by_score(scored.inferences), limit) >>]

\* the end of run, from the aggregate list on: an empty list goes to the
\* renderer as it is; any other is scored, sorted by descending score, cut to
\* the limit and then rendered
finish_run(inferences, limit) ==
    IF Len(inferences) = 0
    THEN [raised |-> "", rendered |-> <<inferences>>]
    ELSE LET scored == normalize_and_score(inferences)
         IN  IF scored.raised # ""
             THEN [raised |-> scored.raised, rendered |-> <<>>]
             ELSE [raised |-> "",
                   rendered |-> << Slice(sorted_by_score(scored.inferences), limit) >>]

----------------------------------------------------------------------------
(* Bridge tasks *)

\* get_final_rel(rel), the task of one first-hop edge. Its first statement,
\* `await rel.get_annotation(self.api)`, looks up an attribute that Relation
\* does not have, so the task ends there with AttributeError; no statement
\* after it (the second-hop fetch, the Inference) is reached.
get_final_rel(s, rel) ==
    CASE "get_annotation" \notin RelationAttributes -> TaskRaised("AttributeError")

\* the requests get_final_rel(rel) sends before it ends: none, the attribute
\* lookup fails before any request is built
get_final_rel_sent(s, rel) ==
    CASE "get_annotation" \notin RelationAttributes -> NoneSent

\* a strategy that sends its first hop again when it is answered an error
first_hop_retried(rec, st) ==
    [rec EXCEPT !.hop1 = st, !.sent.first_hop = @ + 1]

\* a strategy whose first hop is answered the error status st:
\* fetch_relation prints and raise_for_status() raises, in the strategy; the
\* request is not sent again
first_hop_refused(rec, st) ==
    [rec EXCEPT !.pc = "raised", !.exc = "ClientResponseError", !.hop1 = st]

\* a strategy that takes the heaviest edge out before it builds its tasks:
\* IndexError when the first hop answered no edge
after_first_hop_heaviest(answer) ==
    IF Len(answer) = 0
    THEN [pc |-> "raised", exc |-> "IndexError", rels |-> <<>>, tasks |-> <<>>,
          value |-> <<>>]
    ELSE [pc |-> "gather", exc |-> "", rels |-> sorted_by_weight(answer),
          tasks |-> [i \in DOMAIN answer |-> Pending], value |-> <<>>]

\* a strategy from the answer of its first hop to its gather: the edges are
\* sorted by descending weight and one task per edge is handed to gather,
\* which returns at once, with nothing, when there is no task
after_first_hop(answer) ==
    LET rels == sorted_by_weight(answer)
        tasks == [i \in DOMAIN rels |-> Pending]
    IN  IF gather(tasks).ready
        THEN [pc |-> "returned", exc |-> "", rels |-> rels, tasks |-> tasks,
              value |-> Survivors(tasks)]
        ELSE [pc |-> "gather", exc |-> "", rels |-> rels, tasks |-> tasks,
              value |-> <<>>]

----------------------------------------------------------------------------
(* Initial state: JdmApi() and RelationInferer(api) constructed, nothing run *)

NoStatus == [sujet |-> 0, objet |-> 0]

----------------------------------------------------------------------------
(* The buffering renderer *)

\* the size a chat message may have: `len(combined) < 2000`
DiscordLimit == 2000

\* InferenceLoggerBot(context): an empty buffer, nothing sent to the context
NewLogger == [messages |-> <<>>, sent |-> <<>>, pc |-> "buffering"]

\* a message of the buffer: the call that appended it and its length in
\* characters
Message(idx, len) == [idx |-> idx, len |-> len]

\* "```\n1. ➤ non\n```"
NoResultMessage == Message(1, 16)

\* the length of the text a strategy is shown by: its tag, or the relation
\* for transitivity
middle_rel(inf) == IF inf.t = "transitivity" THEN inf.rel ELSE Len(inf.t)

\* the length of f"{text:<{width}}": padded, never cut
Padded(len, width) == Max(len, width)

\* the length of the message _render_single_inference formats for a
\* candidate of tag inf.t whose strings have the lengths inf.sujet,
\* inf.objet, inf.gen and inf.rel: both terms padded to the longer one, the
\* bridge padded to max_middle and, for "isa", written twice
message_len(inf, max_middle) ==
    LET size == Max(inf.sujet, inf.objet)
        rels == Padded(middle_rel(inf), 5) + Padded(inf.rel, 5)
    IN  IF inf.t = "isa"
        THEN 41 + 2 * size + rels + 2 * Padded(inf.gen, max_middle)
        ELSE 40 + 2 * size + rels + Padded(inf.gen, max_middle)

\* len(max(inferences, key=lambda x: len(x.gen)).gen)
RECURSIVE LongestGen(_)
LongestGen(inferences) ==
    IF Len(inferences) = 0 THEN 0
    ELSE Max(Head(inferences).gen, LongestGen(Tail(inferences)))

\* render_inferences(inferences) on the buffer `messages`: the no-result
\* message for an empty list, otherwise one message per candidate, numbered
\* from 1, the bridges padded to the longest one plus 10
render_inferences(messages, inferences) ==
    IF Len(inferences) = 0 THEN Append(messages, NoResultMessage)
    ELSE messages \o
         [k \in DOMAIN inferences |->
            Message(k, message_len(inferences[k], LongestGen(inferences) + 10))]

\* len("\n".join(messages))
RECURSIVE JoinLen(_)
JoinLen(messages) ==
    IF Len(messages) = 0 THEN 0
    ELSE IF Len(messages) = 1 THEN Head(messages).len
    ELSE Head(messages).len + 1 + JoinLen(Tail(messages))

\* one context.send: the messages it carries, in order, and its length
Send(messages) == [messages |-> messages, len |-> JoinLen(messages)]

\* send_all: what it sends to the context for the buffer `messages`
send_all(messages) ==
    IF Len(messages) = 0 THEN <<>>
    ELSE IF JoinLen(messages) < DiscordLimit THEN << Send(messages) >>
    ELSE [k \in DOMAIN messages |-> Send(<< messages[k] >>)]

----------------------------------------------------------------------------

Init ==
    /\ session = "none"
    /\ relation_types = NotLoaded
    /\ inferer = [limit |-> DefaultLimit, default_params |-> default_params]
    /\ pc = "idle"
    /\ args = NoArgs
    /\ status = NoStatus
    /\ rel_id = 0
    /\ err = NoError
    /\ strat = [s \in StrategyIds |-> NotStarted]
    /\ issued = NoRequests
    /\ rendered = <<>>
    /\ logger = NewLogger

run_vars == <<pc, args, status, rel_id, err, strat, issued, rendered>>

----------------------------------------------------------------------------
(* JdmApi.__aenter__ and __aexit__ *)

\* async with JdmApi() as api: the session is opened, then the catalog is
\* fetched; when that fetch fails __aenter__ raises with the session open
AEnter(st, catalog) ==
    /\ session = "none"
    /\ pc = "idle"
    /\ session' = "open"
    /\ relation_types' = IF st = 200 THEN [loaded |-> TRUE, types |-> catalog]
                         ELSE relation_types
    /\ UNCHANGED <<inferer, logger, run_vars>>

\* the end of the async with block, reached once __aenter__ has returned
AExit ==
    /\ session = "open"
    /\ relation_types.loaded
    /\ pc = "idle"
    /\ session' = "closed"
    /\ UNCHANGED <<relation_types, inferer, logger, run_vars>>

----------------------------------------------------------------------------
(* RelationInferer.run *)

\* run(sujet_name, relation_name, objet_name) up to its first await: the
\* lookup of the subject is sent, unless the session refuses it
RunStart(relation_name) ==
    /\ pc = "idle"
    /\ args' = [sujet_name |-> SujetName, relation_name |-> relation_name,
                objet_name |-> ObjetName]
    /\ IF fetch_refused(session) # NoError
       THEN /\ pc' = "raised"
            /\ err' = fetch_refused(session)
            /\ issued' = issued
       ELSE /\ pc' = "await_sujet"
            /\ err' = err
            /\ issued' = [issued EXCEPT !.term = @ + 1]
    /\ UNCHANGED <<session, relation_types, logger, inferer, status, rel_id, strat, rendered>>

\* the subject's lookup answers: the Term, and the object's lookup is sent;
\* or TermNotFoundError, which run prints and raises again
SujetResponse(st) ==
    /\ pc = "await_sujet"
    /\ status' = [status EXCEPT !.sujet = st]
    /\ LET e == fetch_term_by_name(args.sujet_name, st)
       IN  IF e # NoError
           THEN /\ pc' = "raised"
                /\ err' = e
                /\ issued' = issued
           ELSE /\ pc' = "await_objet"
                /\ err' = err
                /\ issued' = [issued EXCEPT !.term = @ + 1]
    /\ UNCHANGED <<session, relation_types, logger, inferer, args, rel_id, strat, rendered>>

\* the object's lookup answers; then, with no await in between, the relation
\* type is looked up and run_all_inferences hands its four coroutines to gather
ObjetResponse(st) ==
    /\ pc = "await_objet"
    /\ status' = [status EXCEPT !.objet = st]
    /\ LET e == fetch_term_by_name(args.objet_name, st)
           r == type_id(relation_types, args.relation_name)
       IN  IF e # NoError
           THEN pc' = "raised" /\ err' = e /\ UNCHANGED <<rel_id, strat>>
           ELSE IF r.raised # NoError
           THEN pc' = "raised" /\ err' = r.raised /\ UNCHANGED <<rel_id, strat>>
           ELSE /\ pc' = "gather"
                /\ err' = err
                /\ rel_id' = r.id
                /\ strat' = [s \in StrategyIds |-> [NotStarted EXCEPT !.pc = "ready"]]
    /\ UNCHANGED <<session, relation_types, logger, inferer, args, issued, rendered>>

\* a strategy coroutine up to its first await: the filter is copied, the fixed
\* relation type is looked up (not by transitivity) and the first hop is sent
StrategyStart(s) ==
    /\ pc = "gather"
    /\ strat[s].pc = "ready"
    /\ LET r == IF FixedType(s) = "" THEN [raised |-> NoError, id |-> rel_id]
                ELSE type_id(relation_types, FixedType(s))
       IN  IF r.raised # NoError
           THEN /\ strat' = [strat EXCEPT ![s].pc = "raised", ![s].exc = r.raised.type]
                /\ issued' = issued
                /\ inferer' = inferer
           ELSE LET p == with_types_ids(
                             copy(Instance(DefaultId, inferer.default_params), <<s, 1>>),
                             <<r.id>>)
                IN  /\ strat' = [strat EXCEPT ![s].pc = "await_hop1",
                                               ![s].params = <<p>>,
                                               ![s].sent.first_hop = @ + 1]
                    /\ issued' = [issued EXCEPT !.first_hop = @ + 1]
                    /\ inferer' = [inferer EXCEPT
                                      !.default_params = written_default(@, p)]
    /\ UNCHANGED <<session, relation_types, logger, pc, args, status, rel_id, err, rendered>>

\* the first hop answers: an error status raises in the strategy; otherwise
\* the edges are sorted by descending weight, the filter of the second hop is
\* made (not by transitivity) and one task per edge, holding that filter, is
\* handed to gather, which is over at once when there is no edge
FirstHopResponse(s, st, answer) ==
    /\ pc = "gather"
    /\ strat[s].pc = "await_hop1"
    /\ IF st # 200
       THEN /\ strat' = [strat EXCEPT ![s] = first_hop_refused(@, st)]
            /\ inferer' = inferer
       ELSE LET o == after_first_hop(answer)
                p == with_types_ids(
                         copy(Instance(DefaultId, inferer.default_params), <<s, 2>>),
                         <<rel_id>>)
                ps == IF CopiesTwice(s) THEN Append(strat[s].params, p)
                      ELSE strat[s].params
            IN  /\ strat' = [strat EXCEPT
                     ![s].pc = o.pc, ![s].exc = o.exc, ![s].hop1 = st,
                     ![s].params = ps, ![s].rels = o.rels, ![s].tasks = o.tasks,
                     ![s].held = [i \in DOMAIN o.tasks |-> ps[Len(ps)].id],
                     ![s].value = o.value]
                /\ inferer' = IF CopiesTwice(s)
                              THEN [inferer EXCEPT
                                       !.default_params = written_default(@, p)]
                              ELSE inferer
    /\ UNCHANGED <<session, relation_types, logger, pc, args, status, rel_id, err,
                   issued, rendered>>

\* one bridge task runs
BridgeTask(s, i) ==
    /\ pc = "gather"
    /\ strat[s].pc = "gather"
    /\ i \in DOMAIN strat[s].tasks
    /\ strat[s].tasks[i].state = "pending"
    /\ LET sent == get_final_rel_sent(s, strat[s].rels[i])
       IN  /\ strat' = [strat EXCEPT
                ![s].tasks[i] = get_final_rel(s, strat[s].rels[i]),
                ![s].sent.second_hop = @ + sent.second_hop,
                ![s].sent.annotation = @ + sent.annotation]
           /\ issued' = [issued EXCEPT !.second_hop = @ + sent.second_hop,
                                       !.annotation = @ + sent.annotation]
    /\ UNCHANGED <<session, relation_types, logger, inferer, pc, args, status, rel_id, err,
                   rendered>>

\* the strategy's gather is over, its tasks having completed in some order:
\* the strategy returns the surviving results
StrategyJoin(s) ==
    /\ pc = "gather"
    /\ strat[s].pc = "gather"
    /\ gather(strat[s].tasks).ready
    /\ \E inferences \in {Survivors(gather_results(strat[s].tasks, order)) :
                              order \in CompletionOrders(strat[s].tasks)} :
          strat' =
            IF gather(strat[s].tasks).exc # ""
            THEN [strat EXCEPT ![s].pc = "raised",
                               ![s].exc = gather(strat[s].tasks).exc]
            ELSE [strat EXCEPT ![s].pc = "returned", ![s].value = inferences]
    /\ UNCHANGED <<session, relation_types, logger, inferer, pc, args, status, rel_id, err,
                   issued, rendered>>

\* the aggregate list of the run: what run_all_inferences returns
Aggregate == Extend(AsTasks(strat))

\* the outer gather is over: run_all_inferences returns the aggregate list and
\* run ends, with no await left
RunJoin ==
    /\ pc = "gather"
    /\ gather(AsTasks(strat)).ready
    /\ \E all_inferences \in {Extend(gather_results(AsTasks(strat), order)) :
                                  order \in CompletionOrders(AsTasks(strat))} :
          LET g == gather(AsTasks(strat))
              f == finish_run(all_inferences, inferer.limit)
          IN  IF g.exc # ""
              THEN pc' = "raised" /\ err' = Raised(g.exc) /\ rendered' = rendered
              ELSE IF f.raised # ""
              THEN pc' = "raised" /\ err' = Raised(f.raised) /\ rendered' = rendered
              ELSE pc' = "done" /\ err' = err /\ rendered' = rendered \o f.rendered
    /\ UNCHANGED <<session, relation_types, logger, inferer, args, status, rel_id, strat, issued>>

\* the caller takes the outcome; the inferer is ready for another run
Return ==
    /\ pc \in {"done", "raised"}
    /\ pc' = "idle"
    /\ args' = NoArgs
    /\ status' = NoStatus
    /\ rel_id' = 0
    /\ err' = NoError
    /\ strat' = [s \in StrategyIds |-> NotStarted]
    /\ issued' = NoRequests
    /\ rendered' = <<>>
    /\ UNCHANGED <<session, relation_types, logger, inferer>>

Next ==
    \/ \E st \in QueryStatuses, catalog \in Catalogs : AEnter(st, catalog)
    \/ AExit
    \/ \E rn \in RelationNames : RunStart(rn)
    \/ \E st \in TermStatuses : SujetResponse(st)
    \/ \E st \in TermStatuses : ObjetResponse(st)
    \/ \E s \in StrategyIds : StrategyStart(s)
    \/ \E s \in StrategyIds, st \in QueryStatuses, answer \in FirstHopAnswers :
          FirstHopResponse(s, st, answer)
    \/ \E s \in StrategyIds, i \in 1..MaxEdges : BridgeTask(s, i)
    \/ \E s \in StrategyIds : StrategyJoin(s)
    \/ RunJoin
    \/ Return

Spec == Init /\ [][Next]_vars

----------------------------------------------------------------------------
(* The end of run as a function of the aggregate list.                     *)
(*                                                                         *)
(* No bridge task of Spec returns a candidate, so its aggregate list is    *)
(* always empty. normalize_and_score and the sort and cut of run are       *)
(* functions of the list they are given: the two specifications below      *)
(* start where the four strategies have returned candidates drawn from     *)
(* bounded sets and let RunJoin, the action of Spec, end the run.          *)

\* the annotation multipliers a candidate may carry: one below 1, both 1,
\* one above 1
AnnotationWeights == {<< <<1, 2>>, One >>, <<One, One>>, << One, <<2, 1>> >>}

\* the limits a caller may construct the inferer with
Limits == -1 .. MaxRankLen

\* the strategy that returned the k-th candidate of the aggregate list: the
\* first strategy returned two, the next ones one each
StrategyOf(k) == IF k <= 2 THEN 1 ELSE Min(k - 1, Len(Strategies))

\* a strategy's candidates come in the order of its first-hop edges, which it
\* sorted by descending weight
Descending(cs) ==
    \A i, j \in DOMAIN cs :
        (i < j /\ StrategyOf(i) = StrategyOf(j)) => cs[i][1] >= cs[j][1]

\* the k-th candidate, named by its bridge k
Candidate(k, c) == Inference(StrategyOf(k), k, c[1], c[2], c[3][1], c[3][2])

\* the access port and the target of the runs below: the full catalog,
\* loaded, and r_has_part
Loaded == [loaded |-> TRUE, types |-> FullCatalog]

TargetId == type_id(Loaded, "r_has_part").id

\* the state in which the strategies have returned the candidates cs
Gathered(cs) ==
    [s \in StrategyIds |->
        LET mine == SelectSeq(cs, LAMBDA inf : inf.t = Tag(s))
            first == with_types_ids(Instance(<<s, 1>>, default_params),
                        <<IF CopiesTwice(s) THEN type_id(Loaded, FixedType(s)).id
                          ELSE TargetId>>)
            second == with_types_ids(Instance(<<s, 2>>, default_params), <<TargetId>>)
            ps == IF CopiesTwice(s) THEN <<first, second>> ELSE <<first>>
        IN  [pc |-> "returned", exc |-> "", hop1 |-> 200, params |-> ps,
             rels |-> [i \in DOMAIN mine |-> [node2 |-> mine[i].gen, w |-> mine[i].weight1]],
             tasks |-> [i \in DOMAIN mine |-> TaskReturned(<<mine[i]>>)],
             held |-> [i \in DOMAIN mine |-> ps[Len(ps)].id],
             sent |-> [first_hop |-> 1, second_hop |-> Len(mine),
                       annotation |-> 2 * Len(mine)],
             value |-> mine]]

InitGathered(cs, limit) ==
    /\ session = "open"
    /\ relation_types = Loaded
    /\ inferer = [limit |-> limit, default_params |-> default_params]
    /\ pc = "gather"
    /\ args = [sujet_name |-> SujetName, relation_name |-> "r_has_part",
               objet_name |-> ObjetName]
    /\ status = [sujet |-> 200, objet |-> 200]
    /\ rel_id = TargetId
    /\ err = NoError
    /\ strat = Gathered(cs)
    /\ issued = [term |-> 2, first_hop |-> Len(Strategies), second_hop |-> Len(cs),
                 annotation |-> 2 * Len(cs)]
    /\ rendered = <<>>
    /\ logger = NewLogger

\* scoring: up to MaxScoreLen candidates; weights 0, 1 (the least the
\* filters ask for) and MaxWeight; the annotation multipliers; a limit that
\* cuts and the default one, which does not
ScoreWeights == {0, 1, MaxWeight}

ScoreInputs == ScoreWeights \X ScoreWeights \X AnnotationWeights

ScoreLimits == {1, DefaultLimit}

InitScore ==
    \E n \in 1..MaxScoreLen : \E cs \in [1..n -> ScoreInputs] : \E limit \in ScoreLimits :
        /\ Descending(cs)
        /\ InitGathered([k \in 1..n |-> Candidate(k, cs[k])], limit)

SpecScore == InitScore /\ [][RunJoin]_vars

\* ranking: up to MaxRankLen candidates; weights 1, 2 and MaxWeight (both
\* hops ask for min_weight 1); multipliers 1; any limit
RankWeights == {1, 2, MaxWeight}

RankInputs == RankWeights \X RankWeights \X {<<One, One>>}

InitRank ==
    \E n \in 0..MaxRankLen : \E cs \in [1..n -> RankInputs] : \E limit \in Limits :
        /\ Descending(cs)
        /\ InitGathered([k \in 1..n |-> Candidate(k, cs[k])], limit)

SpecRank == InitRank /\ [][RunJoin]_vars

\* scheduling: up to MaxRankLen candidates of weights 1 and MaxWeight,
\* multipliers 1; a limit that cuts and the default one; the bridge tasks are
\* over and the four strategies still in their gather; the joins of Spec end
\* the run
OrderWeights == {1, MaxWeight}

OrderInputs == OrderWeights \X OrderWeights \X {<<One, One>>}

OrderLimits == {2, DefaultLimit}

Gathering(cs) ==
    [s \in StrategyIds |-> [Gathered(cs)[s] EXCEPT !.pc = "gather", !.value = <<>>]]

InitOrder ==
    \E n \in 0..MaxRankLen : \E cs \in [1..n -> OrderInputs] : \E limit \in OrderLimits :
        /\ Descending(cs)
        /\ session = "open"
        /\ relation_types = Loaded
        /\ inferer = [limit |-> limit, default_params |-> default_params]
        /\ pc = "gather"
        /\ args = [sujet_name |-> SujetName, relation_name |-> "r_has_part",
                   objet_name |-> ObjetName]
        /\ status = [sujet |-> 200, objet |-> 200]
        /\ rel_id = TargetId
        /\ err = NoError
        /\ strat = Gathering([k \in 1..n |-> Candidate(k, cs[k])])
        /\ issued = [term |-> 2, first_hop |-> Len(Strategies), second_hop |-> n,
                     annotation |-> 2 * n]
        /\ rendered = <<>>
        /\ logger = NewLogger

SpecOrder == InitOrder /\ [][(\E s \in StrategyIds : StrategyJoin(s)) \/ RunJoin]_vars

----------------------------------------------------------------------------
(* The buffering renderer of the chat command: one logger per command,     *)
(* handed the list of one run and then asked to send.                      *)

\* the lengths of the terms of a command: the default sentence's, and terms
\* of some five hundred and some thousand characters
TermLengths == {5, 480, 990}

\* the candidates a run may hand the renderer, by the lengths of their
\* strings: a bridge of 4 characters, the relation r_has_part
RenderInputs == {"isa", "hypo", "transitivity"} \X TermLengths

Rendered(c) ==
    [t |-> c[1], sujet |-> c[2], objet |-> 5, gen |-> 4, rel |-> 10]

\* logger.render_inferences(inferences), once per logger
RenderInferences(inferences) ==
    /\ logger.pc = "buffering"
    /\ logger.messages = <<>>
    /\ logger' = [logger EXCEPT !.messages = render_inferences(@, inferences)]
    /\ UNCHANGED <<session, relation_types, inferer, run_vars>>

\* await logger.send_all()
SendAll ==
    /\ logger.pc = "buffering"
    /\ logger' = [logger EXCEPT !.sent = @ \o send_all(logger.messages), !.pc = "sent"]
    /\ UNCHANGED <<session, relation_types, inferer, run_vars>>

SpecSend ==
    Init /\ [][\/ \E n \in 0..MaxRankLen : \E cs \in [1..n -> RenderInputs] :
                    RenderInferences([k \in 1..n |-> Rendered(cs[k])])
               \/ SendAll]_vars

----------------------------------------------------------------------------
(* Properties *)

TaskIds(s) == DOMAIN strat[s].tasks

\* the run got past resolution: both terms and the relation type are resolved
Resolved == rel_id # 0

\* the list the renderer was handed, once run is over
Output == rendered[1]

\* the bridges of a list of candidates, in order: which candidates, and where
Bridges(l) == [i \in DOMAIN l |-> l[i].gen]

\* the ranking stage applied to a list: score, sort, cut to the limit
Rank(l) == finish_run(l, inferer.limit).rendered[1]

\* C1: in a run whose resolution succeeded, a bridge task that fails takes
\* nothing else down: its strategy stays in its gather until every one of its
\* tasks is over and then returns the candidates of the tasks that returned
\* one; the run ends only when the four strategies are over, renders and never
\* raises; and every other bridge task, none of whose own fetches failed (the
\* service answers every second hop with an edge), completes with a candidate
\* that is in the aggregate list.
C1_TaskFailureIsolated ==
    /\ \A s \in StrategyIds :
          /\ strat[s].tasks # <<>> => strat[s].pc \in {"gather", "returned"}
          /\ strat[s].pc = "returned" =>
                /\ \A i \in TaskIds(s) : strat[s].tasks[i].state # "pending"
                /\ strat[s].value = Survivors(strat[s].tasks)
    /\ pc = "raised" => ~Resolved
    /\ pc = "done" =>
          /\ \A s \in StrategyIds : strat[s].pc \in {"returned", "raised"}
          /\ Len(rendered) = 1
          /\ \A s \in StrategyIds : \A i \in TaskIds(s) :
                /\ strat[s].tasks[i].state = "returned"
                /\ \E k \in DOMAIN Aggregate :
                      /\ Aggregate[k].t = Tag(s)
                      /\ Aggregate[k].gen = strat[s].rels[i].node2

\* C2: when the subject's or the object's lookup answers anything but 200,
\* run raises TermNotFoundError for that name and status, no strategy was
\* started, no relation or annotation request was sent and nothing was rendered.
C2_UnresolvedTermRaises ==
    \A which \in {"sujet", "objet"} :
        status[which] \notin {0, 200} =>
            /\ pc = "raised"
            /\ err = TermNotFoundError(IF which = "sujet" THEN args.sujet_name
                                       ELSE args.objet_name, status[which])
            /\ \A s \in StrategyIds : strat[s] = NotStarted
            /\ issued.first_hop = 0 /\ issued.second_hop = 0 /\ issued.annotation = 0
            /\ rendered = <<>>

\* the subject is not found (404): run has raised
C2_Witness ==
    /\ status.sujet = 404
    /\ pc = "raised"
    /\ err.type = "TermNotFoundError"
    /\ issued.term = 1

\* the state in which run raised because no catalog entry has the relation name
RelationUnknown ==
    /\ pc = "raised"
    /\ status = [sujet |-> 200, objet |-> 200]
    /\ relation_types.loaded
    /\ Matching(relation_types.types, args.relation_name) = {}

\* C3: when both terms resolve and no catalog entry has the relation name, run
\* raises the typed not-found error carrying that name, and no strategy runs.
C3_UnknownRelationTyped ==
    RelationUnknown =>
        /\ err.type = "TermNotFoundError"
        /\ err.term_name = args.relation_name
        /\ \A s \in StrategyIds : strat[s] = NotStarted

\* C4: a strategy whose fetches all succeeded returns exactly one candidate for
\* every first-hop edge whose second hop has an edge.
C4_OneCandidatePerConfirmedEdge ==
    \A s \in StrategyIds :
        strat[s].pc = "returned" =>
            \A i \in DOMAIN strat[s].rels :
                SecondHopAnswer(strat[s].rels[i].node2) # <<>> =>
                    Cardinality({j \in DOMAIN strat[s].value :
                        /\ strat[s].value[j].gen = strat[s].rels[i].node2
                        /\ strat[s].value[j].t = Tag(s)
                        /\ strat[s].value[j].weight1 = strat[s].rels[i].w
                        /\ strat[s].value[j].weight2 =
                               SecondHopAnswer(strat[s].rels[i].node2)[1].w}) = 1

\* C5 as claimed: for a non-empty aggregate list and any limit, the renderer
\* gets min(len(candidates), limit) candidates.
C5_LengthIsMin ==
    (pc = "done" /\ Len(Aggregate) > 0) =>
        Len(Output) = Min(Len(Aggregate), inferer.limit)

\* C5 as amended: for a non-empty aggregate list and a limit >= 0 the renderer
\* gets min(len(candidates), limit) candidates; a negative limit n leaves
\* max(len(candidates) + n, 0) of them.
C5_LengthIsMinOfNonNegativeLimit ==
    (pc = "done" /\ Len(Aggregate) > 0) =>
        Len(Output) = IF inferer.limit >= 0 THEN Min(Len(Aggregate), inferer.limit)
                      ELSE Max(Len(Aggregate) + inferer.limit, 0)

\* three candidates cut to two
C5_Witness ==
    /\ pc = "done"
    /\ Len(Aggregate) = 3
    /\ inferer.limit = 2
    /\ Len(Output) = 2

\* C6: after scoring, a candidate whose two multipliers are at most 1 has a
\* score in [0, 1], and every candidate's harmonic-mean component (its score
\* with the multipliers taken out) is in [0, 1].
C6_ScoreInUnitInterval ==
    pc = "done" =>
        \A i \in DOMAIN Output :
            LET c == Output[i]
            IN  /\ (RLeq(c.annotation_weight1, One) /\ RLeq(c.annotation_weight2, One))
                       => (RLeq(Zero, c.score) /\ RLeq(c.score, One))
                /\ RLeq(Zero, c.score)
                /\ RLeq(c.score, RMul(c.annotation_weight1, c.annotation_weight2))

\* two scored candidates: one with a multiplier 1/2 and a score strictly
\* between 0 and 1, one with a multiplier 2 and a score above 1
C6_Witness ==
    /\ pc = "done"
    /\ Len(Output) = 2
    /\ \E i, j \in DOMAIN Output :
          /\ Output[i].annotation_weight1 = <<1, 2>>
          /\ Output[i].annotation_weight2 = One
          /\ RLess(Zero, Output[i].score) /\ RLess(Output[i].score, One)
          /\ Output[j].annotation_weight2 = <<2, 1>>
          /\ RLess(One, Output[j].score)

\* C7 as claimed: ranking the list that ranking produced gives the same
\* candidates in the same order.
C7_RankIdempotent ==
    (pc = "done" /\ Len(Aggregate) > 0) => Bridges(Rank(Output)) = Bridges(Output)

\* C7 as amended: for a limit >= 0, ranking the list that ranking produced
\* gives the same candidates; and when the cut removed none (limit >=
\* len(candidates)) it gives the same list, scores and order included.
C7_RankIdempotentUncut ==
    (pc = "done" /\ Len(Aggregate) > 0 /\ inferer.limit >= 0) =>
        /\ {Bridges(Rank(Output))[i] : i \in DOMAIN Rank(Output)}
               = {Bridges(Output)[i] : i \in DOMAIN Output}
        /\ Len(Rank(Output)) = Len(Output)
        /\ inferer.limit >= Len(Aggregate) => Rank(Output) = Output

\* three candidates, none cut, two of them with equal scores, ranked again
C7_Witness ==
    /\ pc = "done"
    /\ Len(Aggregate) = 3
    /\ inferer.limit = 3
    /\ Output[1].score = Output[2].score
    /\ RLess(Output[3].score, Output[2].score)
    /\ Rank(Output) = Output

\* x / y for y > 0
RDiv(x, y) == RMul(x, RInv(y))

\* the score as the specification writes it, from the maxima max1 and max2
SpecScoreOf(c, max1, max2) ==
    LET norm1 == IF max1 > 0 THEN Frac(c.weight1, max1) ELSE Zero
        norm2 == IF max2 > 0 THEN Frac(c.weight2, max2) ELSE Zero
        base == IF RLess(Zero, norm1) /\ RLess(Zero, norm2)
                THEN RDiv(RMul(<<2, 1>>, RMul(norm1, norm2)), RAdd(norm1, norm2))
                ELSE Zero
    IN  RMul(RMul(base, c.annotation_weight1), c.annotation_weight2)

\* the largest weight1 (which = 1) or weight2 (which = 2) of the aggregate list
MaxWeightOf(which) ==
    CHOOSE m \in 0..MaxWeight :
        /\ \E j \in DOMAIN Aggregate :
              (IF which = 1 THEN Aggregate[j].weight1 ELSE Aggregate[j].weight2) = m
        /\ \A j \in DOMAIN Aggregate :
              (IF which = 1 THEN Aggregate[j].weight1 ELSE Aggregate[j].weight2) <= m

\* C8: every rendered candidate's score is base x annotation1 x annotation2,
\* with norm_i = weight_i / max_i (0 when max_i is 0), max_i the largest
\* weight_i of the whole aggregate list, cut candidates included, and base =
\* 2 norm1 norm2 / (norm1 + norm2) when both norms are positive, else 0.
C8_ScoreFormula ==
    (pc = "done" /\ Len(Aggregate) > 0) =>
        \A i \in DOMAIN Output :
            Output[i].score = SpecScoreOf(Output[i], MaxWeightOf(1), MaxWeightOf(2))

\* two candidates with different weights and multipliers, cut to the better
\* one, whose score is neither 0 nor its multipliers' product
C8_Witness ==
    /\ pc = "done"
    /\ Len(Aggregate) = 2
    /\ inferer.limit = 1
    /\ Len(Output) = 1
    /\ Output[1].weight1 < MaxWeightOf(1)
    /\ Output[1].annotation_weight1 # One
    /\ RLess(Zero, Output[1].score)
    /\ Output[1].score # RMul(Output[1].annotation_weight1, Output[1].annotation_weight2)

AllZero(which) ==
    /\ Len(Aggregate) > 0
    /\ \A j \in DOMAIN Aggregate :
          (IF which = 1 THEN Aggregate[j].weight1 ELSE Aggregate[j].weight2) = 0

\* C9: when every weight1 of the aggregate list is 0, or every weight2, run
\* ends without an exception and every score is 0.
C9_AllZeroWeights ==
    (pc # "gather" /\ (AllZero(1) \/ AllZero(2))) =>
        /\ pc = "done"
        /\ \A i \in DOMAIN Output : Output[i].score = Zero

\* two candidates whose weight1 are all 0 and whose weight2 are not, scored
C9_Witness ==
    /\ pc = "done"
    /\ Len(Aggregate) = 2
    /\ AllZero(1)
    /\ \A j \in DOMAIN Aggregate : Aggregate[j].weight2 > 0
    /\ Len(Output) = 2
    /\ Output[1].score = Zero

\* the place of a rendered candidate in the aggregate list
PlaceInAggregate(c) ==
    CHOOSE j \in DOMAIN Aggregate : Aggregate[j].gen = c.gen

\* the place of a tag in the order generalization, specialization,
\* transitivity, synonymy
TagPlace(t) == CHOOSE s \in StrategyIds : Tag(s) = t

\* C10: the rendered list is in non-increasing score order, and two candidates
\* of equal score come in the order of the aggregate list, which is the order
\* of the strategies and, within a strategy, of descending first-hop weight.
C10_SortedAndStable ==
    pc = "done" =>
        \A i, j \in DOMAIN Output :
            i < j =>
                /\ RLeq(Output[j].score, Output[i].score)
                /\ Output[i].score = Output[j].score =>
                      /\ PlaceInAggregate(Output[i]) < PlaceInAggregate(Output[j])
                      /\ TagPlace(Output[i].t) <= TagPlace(Output[j].t)
                      /\ Output[i].t = Output[j].t => Output[i].weight1 >= Output[j].weight1

\* three candidates rendered: the last of the aggregate list first, then two
\* of equal score in their aggregate order
C10_Witness ==
    /\ pc = "done"
    /\ Len(Output) = 3
    /\ Output[1].gen = 3
    /\ RLess(Output[2].score, Output[1].score)
    /\ Output[2].score = Output[3].score
    /\ Output[2].gen = 1
    /\ Output[2].t = Output[3].t
    /\ Output[2].weight1 > Output[3].weight1

\* the strategies whose first hop failed: the fetch answered an error, or the
\* strategy's fixed relation type is in no catalog entry
FirstHopFailed == {s \in StrategyIds : strat[s].pc = "raised"}

\* C11: in a run that is over, a strategy whose first hop failed has
\* contributed no candidate and has failed nothing else: the run did not
\* raise, it rendered once, every other strategy returned, and the candidates
\* of the other strategies (one for every first-hop edge of theirs, the service
\* answering every second hop with an edge) are in the rendered list.
C11_FirstHopFailureIsolated ==
    (pc \in {"done", "raised"} /\ FirstHopFailed # {}) =>
        /\ pc = "done"
        /\ Len(rendered) = 1
        /\ \A s \in FirstHopFailed : strat[s].value = <<>> /\ strat[s].tasks = <<>>
        /\ \A s \in StrategyIds \ FirstHopFailed :
              /\ strat[s].pc = "returned"
              /\ \A i \in DOMAIN strat[s].rels :
                    \E k \in DOMAIN Output :
                        /\ Output[k].t = Tag(s)
                        /\ Output[k].gen = strat[s].rels[i].node2

\* the strategies whose first hop was answered, without error, with no edge
NoFirstHopEdge == {s \in StrategyIds : strat[s].hop1 = 200 /\ strat[s].rels = <<>>}

\* C12: a strategy whose first hop was answered with no edge has returned the
\* empty list, raised nothing, has no bridge task and has sent no second-hop
\* and no annotation request; its one request is its first hop.
C12_NoEdgeNoCandidate ==
    \A s \in NoFirstHopEdge :
        /\ strat[s].pc = "returned"
        /\ strat[s].exc = ""
        /\ strat[s].value = <<>>
        /\ strat[s].tasks = <<>>
        /\ strat[s].sent = [NoneSent EXCEPT !.first_hop = 1]

\* a run that is over, in which transitivity got no first-hop edge and
\* returned while another strategy got two edges and ran two bridge tasks
C12_Witness ==
    /\ pc = "done"
    /\ 3 \in NoFirstHopEdge
    /\ strat[3].pc = "returned"
    /\ \E s \in StrategyIds \ NoFirstHopEdge : Len(strat[s].tasks) = 2

\* a step of a run that has started: an answer of the service or a step of
\* the event loop
RunStep ==
    \/ \E st \in TermStatuses : SujetResponse(st)
    \/ \E st \in TermStatuses : ObjetResponse(st)
    \/ \E s \in StrategyIds : StrategyStart(s)
    \/ \E s \in StrategyIds, st \in QueryStatuses, answer \in FirstHopAnswers :
          FirstHopResponse(s, st, answer)
    \/ \E s \in StrategyIds, i \in 1..MaxEdges : BridgeTask(s, i)
    \/ \E s \in StrategyIds : StrategyJoin(s)
    \/ RunJoin
    \/ Return

\* the executions in which every request is answered, the event loop runs
\* what is ready, and the caller's `async with` block ends: between two runs
\* it is left sooner or later
FairSpec == Spec /\ WF_vars(RunStep) /\ SF_vars(AExit)

\* C13: every session the access port opens is eventually closed, whether
\* the runs of its block returned or raised and whether or not __aenter__
\* could load the catalog after it opened the session.
C13_SessionReleased == (session = "open") ~> (session = "closed")

\* run has raised on an access port whose catalog is not loaded, and no term
\* lookup of the run was answered with an error
RaisedUnloaded ==
    /\ pc = "raised"
    /\ ~relation_types.loaded
    /\ status.sujet \in {0, 200}
    /\ status.objet \in {0, 200}

\* C14: no first-hop or second-hop request is sent while the catalog is not
\* loaded, and a run on an access port whose catalog is not loaded raises the
\* configuration error (the RuntimeError of get_relation_type_by_name) with no
\* relation request sent.
C14_CatalogLoadedFirst ==
    /\ (issued.first_hop > 0 \/ issued.second_hop > 0) => relation_types.loaded
    /\ RaisedUnloaded =>
          /\ err.type = "RuntimeError"
          /\ issued.first_hop = 0
          /\ issued.second_hop = 0

\* C15: a run whose resolution succeeded does not raise, renders nothing
\* before its strategies are over and, once over, has called the renderer
\* exactly once: with the empty list, unscored, when the aggregate list is
\* empty, and otherwise with the aggregate list scored, sorted and cut.
C15_RenderedOnce ==
    /\ Resolved => pc \in {"gather", "done"}
    /\ pc = "gather" => rendered = <<>>
    /\ pc = "done" =>
          /\ err = NoError
          /\ Len(rendered) = 1
          /\ Output =
                IF Aggregate = <<>> THEN <<>>
                ELSE Slice(sorted_by_score(normalize_and_score(Aggregate).inferences),
                           inferer.limit)

\* a run that is over whose strategies returned no candidate: the renderer
\* got the empty list, once, and run raised nothing
C15_Witness ==
    /\ pc = "done"
    /\ Resolved
    /\ Aggregate = <<>>
    /\ rendered = << <<>> >>
    /\ err = NoError

\* bridge task i of strategy s went for the annotation of its first-hop edge:
\* the AttributeError of a task is the one of `rel.get_annotation`
AnnotationLookedUp(s, i) == strat[s].tasks[i].exc = "AttributeError"

Made(s) == {strat[s].params[k].id : k \in DOMAIN strat[s].params}

\* the filter objects the bridge tasks of strategy s hold
Held(s) == {strat[s].held[i] : i \in DOMAIN strat[s].held}

\* every strategy works on copies of its own and the default filter is as
\* the constructor made it
StrategiesOwnTheirFilters ==
    /\ inferer.default_params = default_params
    /\ \A s \in StrategyIds :
          /\ DefaultId \notin Made(s)
          /\ Cardinality(Made(s)) = Len(strat[s].params)
          /\ \A k \in DOMAIN strat[s].params :
                /\ Len(strat[s].params[k].params.types_ids) = 1
                /\ strat[s].params[k].params.min_weight = default_params.min_weight
                /\ strat[s].params[k].params.limit = default_params.limit
          /\ \A t \in StrategyIds \ {s} :
                Made(s) \cap Made(t) = {} /\ Held(s) \cap Held(t) = {}

\* C17 as claimed: every strategy and every bridge task works on a filter
\* object of its own: no object is held by two strategies, by two bridge
\* tasks, or by a bridge task and the first hop of its strategy, and the
\* default filter is never written.
C17_NoSharedFilter ==
    /\ StrategiesOwnTheirFilters
    /\ \A s \in StrategyIds :
          /\ \A i, j \in DOMAIN strat[s].held :
                i # j => strat[s].held[i] # strat[s].held[j]
          /\ \A i \in DOMAIN strat[s].held : strat[s].held[i] # strat[s].params[1].id

\* C17 as amended: every strategy works on deep copies of its own, which no
\* other strategy holds, and the default filter is never written; the bridge
\* tasks of one strategy all hold the same object, the last filter their
\* strategy made (its second copy, and for transitivity the filter of its
\* first hop).
C17_StrategiesOwnTasksShare ==
    /\ StrategiesOwnTheirFilters
    /\ \A s \in StrategyIds :
          /\ Len(strat[s].params) <= (IF CopiesTwice(s) THEN 2 ELSE 1)
          /\ \A i \in DOMAIN strat[s].held :
                strat[s].held[i] = strat[s].params[Len(strat[s].params)].id

\* generalization and transitivity both in their gather with two bridge tasks:
\* generalization's tasks hold its second copy, transitivity's its only one
C17_Witness ==
    /\ strat[1].pc = "gather" /\ strat[3].pc = "gather"
    /\ Len(strat[1].held) = 2 /\ Len(strat[3].held) = 2
    /\ Held(1) = {<<1, 2>>}
    /\ Held(3) = {<<3, 1>>}
    /\ Made(1) = {<<1, 1>>, <<1, 2>>}

\* the strategies that got as far as sending their first hop
SentFirstHop ==
    {s \in StrategyIds : strat[s].pc \in {"await_hop1", "gather", "returned"}
                           \/ strat[s].hop1 # 0}

\* C18 as claimed: in a run that is over every strategy has sent exactly one
\* first-hop request and at most one second-hop request per first-hop edge.
C18_ExactlyOneFirstHop ==
    pc = "done" =>
        \A s \in StrategyIds :
            /\ strat[s].sent.first_hop = 1
            /\ strat[s].sent.second_hop <= Len(strat[s].rels)

\* C18 as amended: a strategy sends at most one first-hop request, exactly
\* one once it has found its fixed relation type in the catalog and none when
\* the catalog has no such type, and at most one second-hop request per
\* first-hop edge; a first hop answered an error is not sent again, its
\* strategy is over; a run sends two term lookups at most and as many
\* first-hop requests as strategies that sent one.
C18_NoRetry ==
    /\ \A s \in StrategyIds :
          /\ strat[s].sent.first_hop = (IF s \in SentFirstHop THEN 1 ELSE 0)
          /\ strat[s].sent.second_hop <= Len(strat[s].rels)
          /\ strat[s].hop1 \notin {0, 200} =>
                strat[s].pc = "raised" /\ strat[s].tasks = <<>>
          /\ (strat[s].pc = "raised" /\ strat[s].hop1 = 0) =>
                Matching(relation_types.types, FixedType(s)) = {}
    /\ issued.first_hop = Cardinality(SentFirstHop)
    /\ issued.term <= 2

\* a run that is over in which one strategy's first hop was answered an
\* error, another's answered two edges and a third found no relation type
C18_Witness ==
    /\ pc = "done"
    /\ \E s, t, u \in StrategyIds :
          /\ strat[s].hop1 = 500 /\ strat[s].sent.first_hop = 1
          /\ strat[t].hop1 = 200 /\ Len(strat[t].rels) = 2
          /\ strat[u].pc = "raised" /\ strat[u].sent.first_hop = 0
    /\ issued.first_hop = 3

\* the candidates the bridge tasks have returned, counted task by task
RECURSIVE Produced(_)
Produced(S) ==
    IF S = {} THEN 0
    ELSE LET s == CHOOSE x \in S : TRUE
         IN  Cardinality({i \in TaskIds(s) : strat[s].tasks[i].state = "returned"
                                              /\ strat[s].tasks[i].value # <<>>})
             + Produced(S \ {s})

\* C19: in a run that is over, the aggregate list has one candidate per bridge
\* task that produced one, and a bridge that two strategies reached over
\* their first hops (its second hop answering an edge to each) is in the
\* rendered list twice, once under each strategy's tag.
C19_NoDeduplication ==
    pc = "done" =>
        /\ Len(Aggregate) = Produced(StrategyIds)
        /\ \A s, t \in StrategyIds :
              (s # t /\ strat[s].pc = "returned" /\ strat[t].pc = "returned") =>
                  \A i \in DOMAIN strat[s].rels, j \in DOMAIN strat[t].rels :
                      strat[s].rels[i].node2 = strat[t].rels[j].node2 =>
                          \E k, l \in DOMAIN Output :
                              /\ k # l
                              /\ Output[k].gen = strat[s].rels[i].node2
                              /\ Output[k].t = Tag(s)
                              /\ Output[l].gen = strat[t].rels[j].node2
                              /\ Output[l].t = Tag(t)

\* no bridge task of strategy s is still running
TasksOver(s) == \A i \in TaskIds(s) : strat[s].tasks[i].state # "pending"

\* strategy s is over: it returned or raised
StrategyOver(s) == strat[s].pc \in {"returned", "raised"}

\* C20: a strategy is over only when every one of its bridge tasks is over,
\* whatever the tasks ended with; and the renderer is called, and run is over
\* after resolution, only when the four strategies are over, so that no task
\* of the engine is running then.
C20_JoinsWaitForAll ==
    /\ \A s \in StrategyIds : StrategyOver(s) => TasksOver(s)
    /\ (rendered # <<>> \/ pc = "done" \/ (pc = "raised" /\ Resolved)) =>
          \A s \in StrategyIds : StrategyOver(s) /\ TasksOver(s)

\* the renderer was called after a strategy ended on a failed first hop and
\* two others each waited for two bridge tasks, all four of which failed
C20_Witness ==
    /\ rendered # <<>>
    /\ \E s, t, u \in StrategyIds :
          /\ s # t
          /\ strat[u].pc = "raised"
          /\ strat[s].pc = "returned" /\ strat[t].pc = "returned"
          /\ Len(strat[s].tasks) = 2 /\ Len(strat[t].tasks) = 2
          /\ \A i \in 1..2 : strat[s].tasks[i].state = "raised"
                             /\ strat[t].tasks[i].state = "raised"

\* the candidates the bridge tasks of the strategies returned, strategy by
\* strategy in the order run_all_inferences lists them and, within a
\* strategy, in the order of its first-hop edges
RECURSIVE InTaskOrder(_)
InTaskOrder(s) ==
    IF s > Len(Strategies) THEN <<>>
    ELSE Survivors(strat[s].tasks) \o InTaskOrder(s + 1)

\* C21: what the renderer is handed does not depend on the order in which
\* the strategies and their bridge tasks complete: a strategy returns its
\* tasks' candidates in the order of its first-hop edges, and a run that is
\* over has rendered the candidates listed in task order, scored, sorted and
\* cut, whatever order the tasks and the strategies completed in.
C21_SchedulingIndependent ==
    /\ \A s \in StrategyIds :
          strat[s].pc = "returned" => strat[s].value = Survivors(strat[s].tasks)
    /\ pc = "done" => Output = Rank(InTaskOrder(1))

\* a run that is over in which one strategy gathered two tasks, each with a
\* candidate, and another strategy gathered a third: the three were rendered
\* and tie on their score, so only the order they are listed in places them
C21_Witness ==
    /\ pc = "done"
    /\ Len(strat[1].tasks) = 2
    /\ Len(Output) = 3
    /\ \A i, j \in DOMAIN Output : Output[i].score = Output[j].score
    /\ Bridges(Output) = <<1, 2, 3>>

\* the inferer as its constructor leaves it
Constructed == [limit |-> DefaultLimit, default_params |-> default_params]

\* the state of a run that the inferer keeps between runs: none
BetweenRuns ==
    /\ args = NoArgs
    /\ status = NoStatus
    /\ rel_id = 0
    /\ err = NoError
    /\ strat = [s \in StrategyIds |-> NotStarted]
    /\ issued = NoRequests
    /\ rendered = <<>>

\* C22: a run leaves the inferer as it was constructed. In every state of
\* every sequence of runs, whether they rendered or raised, the default
\* filter is {min_weight 1, limit 100, no type ids} and the limit is the one
\* the inferer was built with; the inferer has no other field, and between
\* two runs nothing of the earlier run is left: the next run starts from the
\* state the first one started from.
C22_RunLeavesInfererUnchanged ==
    /\ inferer = Constructed
    /\ DOMAIN inferer = {"limit", "default_params"}
    /\ pc = "idle" => BetweenRuns

\* a run that is over in which the four strategies each set type ids on the
\* filter of their first hop, while the default filter has none
C22_Witness ==
    /\ pc = "done"
    /\ \A s \in StrategyIds :
          /\ Len(strat[s].params) >= 1
          /\ strat[s].params[1].params.types_ids # <<>>
    /\ inferer.default_params.types_ids = <<>>

\* the messages the sends carried, in the order they were sent
RECURSIVE Delivered(_)
Delivered(sent) ==
    IF Len(sent) = 0 THEN <<>> ELSE Head(sent).messages \o Delivered(Tail(sent))

\* C23: once send_all is over, every message of the buffer was delivered
\* exactly once and in buffer order; nothing was sent for an empty buffer; a
\* buffer whose join is under the ceiling of 2000 characters went out as one
\* send and any other as several; and no send is longer than the ceiling.
C23_SendAllUnderCeiling ==
    logger.pc = "sent" =>
        /\ Delivered(logger.sent) = logger.messages
        /\ logger.messages = <<>> => logger.sent = <<>>
        /\ (logger.messages # <<>> /\ JoinLen(logger.messages) < DiscordLimit)
              => Len(logger.sent) = 1
        /\ JoinLen(logger.messages) >= DiscordLimit => Len(logger.sent) > 1
        /\ \A k \in DOMAIN logger.sent : logger.sent[k].len <= DiscordLimit
====
